---- MODULE Spec2Model ----
(***************************************************************************)
(* Model of scripts/update-companies-v2-json.cjs: the spreadsheet ->       *)
(* companiesV2.json transform.  One run of the script is a state machine:  *)
(* Start (module initialisation and getDataRows), ProcessRow (one          *)
(* iteration of the row loop), WriteOutput (result assembly and            *)
(* writeFileSync).  An uncaught exception ends the run with `error` set.   *)
(*                                                                         *)
(* JavaScript values are records with a `kind`:                            *)
(*   object  - `entries`: own enumerable properties in insertion order     *)
(*   array   - `items`: the elements; `entries`: own non-index properties  *)
(*   function / undefined - what a property read can also give             *)
(* A string that may be null/undefined is <<>> (absent) or <<s>>.          *)
(***************************************************************************)
EXTENDS Naturals, Sequences, FiniteSets, TLC

VARIABLES excelFile, csvFile, jsonFile, pc, error, rows, i,
          companiesByPillar, digitalCommsSubcats, warnings,
          run, jsonBefore, lastRun

vars == <<excelFile, csvFile, jsonFile, pc, error, rows, i,
          companiesByPillar, digitalCommsSubcats, warnings,
          run, jsonBefore, lastRun>>

\* Longest table (data rows of the sheet) the model enumerates.
MaxRows == 2
\* Number of consecutive runs of the script the model follows.
MaxRuns == 2

Range(s) == {s[n] : n \in DOMAIN s}

(***************************************************************************)
(* JavaScript values                                                       *)
(***************************************************************************)
Nothing == <<>>
Just(s) == <<s>>

Undefined == [kind |-> "undefined"]
Builtin == [kind |-> "function"]
Arr(items) == [kind |-> "array", items |-> items, entries |-> <<>>]
Obj(entries) == [kind |-> "object", entries |-> entries]
Entry(key, value) == [k |-> key, v |-> value]

\* Names every plain object inherits from Object.prototype.
ObjectPrototype == {"constructor", "toString", "valueOf", "hasOwnProperty",
                    "isPrototypeOf", "propertyIsEnumerable", "toLocaleString",
                    "__proto__"}
\* Names an array inherits in addition (those the script can meet).
ArrayPrototype == ObjectPrototype \cup {"push", "length", "map", "slice"}

Truthy(v) == v.kind # "undefined"
TruthyStr(m) == m # Nothing /\ m[1] # ""

HasOwn(o, key) == \E n \in DOMAIN o.entries : o.entries[n].k = key
Own(o, key) == o.entries[CHOOSE n \in DOMAIN o.entries : o.entries[n].k = key].v

\* o[key]: own property, else the prototype chain, else undefined.
Get(o, key) ==
    IF HasOwn(o, key) THEN Own(o, key)
    ELSE IF o.kind = "object" /\ key \in ObjectPrototype THEN Builtin
    ELSE IF o.kind = "array" /\ key \in ArrayPrototype THEN Builtin
    ELSE Undefined

\* key in o
In(o, key) == Get(o, key) # Undefined

\* The keys of the model that are canonical array indices, with their
\* value: an object lists such keys first, in ascending order, before its
\* other keys.
IndexKeys == {<<"2024", 2024>>}
IsIndex(key) == \E p \in IndexKeys : p[1] = key
IndexOf(key) == (CHOOSE p \in IndexKeys : p[1] = key)[2]

\* o[key] = value: an existing key keeps its position; a new key goes last,
\* unless it is an array index, which goes among the index keys at the
\* front, in ascending order.  (The arrays of the model meet no index key.)
Set(o, key, value) ==
    IF HasOwn(o, key)
    THEN [o EXCEPT !.entries =
            [n \in DOMAIN o.entries |->
                IF o.entries[n].k = key THEN Entry(key, value) ELSE o.entries[n]]]
    ELSE IF IsIndex(key)
    THEN LET before == Cardinality({n \in DOMAIN o.entries :
                                        /\ IsIndex(o.entries[n].k)
                                        /\ IndexOf(o.entries[n].k) < IndexOf(key)})
         IN  [o EXCEPT !.entries = SubSeq(@, 1, before) \o <<Entry(key, value)>>
                                        \o SubSeq(@, before + 1, Len(@))]
    ELSE [o EXCEPT !.entries = Append(o.entries, Entry(key, value))]

RECURSIVE GetPath(_, _)
GetPath(o, path) ==
    IF path = <<>> THEN o ELSE GetPath(Get(o, Head(path)), Tail(path))

RECURSIVE SetPath(_, _, _)
SetPath(o, path, value) ==
    IF Len(path) = 1 THEN Set(o, path[1], value)
    ELSE Set(o, path[1], SetPath(Get(o, path[1]), Tail(path), value))

\* if (!o[path]) o[path] = init;
EnsureAt(o, path, init) ==
    IF Truthy(GetPath(o, path)) THEN o ELSE SetPath(o, path, init)

\* o[path].push is callable only when o[path] is an array.
CanPushAt(o, path) == GetPath(o, path).kind = "array"

\* The push as it would be if it were an unshift.
PushAtFront(o, path, company) ==
    LET a == GetPath(o, path)
    IN  SetPath(o, path, [a EXCEPT !.items = <<company>> \o @])

\* o[path].push(company)
PushAt(o, path, company) ==
    LET a == GetPath(o, path)
    IN  SetPath(o, path, [a EXCEPT !.items = Append(@, company)])

(***************************************************************************)
(* Cell values and normalize                                               *)
(***************************************************************************)
\* The strings of the model that carry surrounding whitespace, each with
\* what String.prototype.trim leaves of it; every other string of the model
\* has none and is left as it is.
Padded == {<<" ", "">>, <<"  ", "">>,
           <<" Field & Mobilization ", "Field & Mobilization">>,
           <<" Campaign Management & CRM ", "Campaign Management & CRM">>,
           <<"Beta ", "Beta">>}

\* normalize as it would be without the call of trim.
trimNothing(s) == s

trim(s) ==
    IF \E p \in Padded : p[1] = s
    THEN (CHOOSE p \in Padded : p[1] = s)[2]
    ELSE s

normalize(val) == IF val = Nothing THEN "" ELSE trim(val[1])

\* a || b on strings that may be undefined
OrStr(a, b) == IF TruthyStr(a) THEN a ELSE b

(***************************************************************************)
(* The source files                                                        *)
(***************************************************************************)
Absent == [kind |-> "absent"]

\* Columns of map_data.xlsx, in sheet order.
Headers == <<"S. No.", "Entity", "Logo", "HQ", "Domain", "Description",
             "Category", "Sub Category", "Tools/Products", "Hub URL">>

Cells(entity, logo, hq, domain, description, category, subcategory, hubUrl) ==
    <<"1", entity, logo, hq, domain, description, category, subcategory, "", hubUrl>>

Plain(entity, category, subcategory) ==
    Cells(entity, "", "", "", "", category, subcategory, "")

\* The data rows the model draws its tables from.
SampleRows ==
    { Cells("Acme", "", "", "acme.io", "", "Field & Mobilization", "", ""),
      Plain("Beta", "Research & Intelligence", ""),
      Plain("Acme", "Research & Intelligence", "Polling"),
      Plain("Beta", "Research & Intelligence", "2024"),
      Plain("Beta", "Strategy & Creative Production", "Creative"),
      Plain("Beta", "Strategy & Creative Production", "constructor"),
      Cells("Beta", " ", "NL", "beta.eu", "", "Fundraising & Payments", "",
            "https://hub.example/beta"),
      Plain("Acme", " Campaign Management & CRM ", "CRM Platforms"),
      Plain("Acme", "Organisational Infrastructure", "Hosting"),
      Plain("Acme", "Organisational Infrastructure", "  "),
      Plain("Beta", "Organizational Infrastructure", "Hosting"),
      Plain("Beta", "Digital Comms & Advertising", "Social Media & Management"),
      Plain("Acme", "Digital Comms & Advertising", "Social Media & Management"),
      Plain("Acme", "Digital Comms & Advertising", ""),
      Plain("Acme", "Participation & Election Tech", "Voting"),
      Plain("Acme", "Participation & Election Tech", ""),
      Plain("Acme", "Information Integrity & Defense", ""),
      Plain("Acme", "constructor", ""),
      Plain("Acme", "", ""),
      Plain("  ", "Field & Mobilization", "") }

RECURSIVE TablesOfLen(_)
TablesOfLen(n) ==
    IF n = 0 THEN {<<>>}
    ELSE {Append(t, r) : t \in TablesOfLen(n - 1), r \in SampleRows}

Tables == UNION {TablesOfLen(n) : n \in 0..MaxRows}

\* What XLSX.utils.sheet_to_json(sheet, {header: 1, defval: ''}) gives for a
\* workbook holding the header row and the table t.
Sheet(t) == [kind |-> "sheet", rows |-> <<Headers>> \o t]
EmptySheet == [kind |-> "sheet", rows |-> <<>>]

\* A workbook whose sheet has a hub_url column after the usual ones, a data
\* row that stops after Category and a data row with a cell past the last
\* header; the second row has its link in the hub_url column.
RaggedSheet ==
    [kind |-> "sheet",
     rows |-> <<Headers \o <<"hub_url">>,
                <<"1", "Acme", "", "", "acme.io", "", "Field & Mobilization">>,
                <<"2", "Beta", "", "", "", "", "Fundraising & Payments", "", "", "",
                  "https://hub.example/old", "stray">>>>]

\* What csv-parse gives for a CSV file holding the same header and table:
\* one record per data line, keyed by column name.
Csv(t) ==
    [kind |-> "csv",
     records |-> [n \in DOMAIN t |->
                    [h \in Range(Headers) |->
                        t[n][CHOOSE c \in DOMAIN Headers : Headers[c] = h]]]]

\* A CSV left behind beside the workbook.
StaleCsv == Csv(<<Plain("CsvCo", "Fundraising & Payments", "")>>)

\* row[i], undefined past the end of the row
At(row, c) == IF c \in DOMAIN row THEN Just(row[c]) ELSE Nothing

\* row.name, undefined when the record has no such column
Field(row, name) == IF name \in DOMAIN row THEN Just(row[name]) ELSE Nothing

\* The record as it would be if it were built from the cells of the row
\* instead of from the headers.
RowObjectByCells(headers, row) ==
    [h \in {headers[c] : c \in DOMAIN headers \cap DOMAIN row} |->
        LET last == CHOOSE c \in DOMAIN headers \cap DOMAIN row :
                        /\ headers[c] = h
                        /\ \A d \in DOMAIN headers \cap DOMAIN row : headers[d] = h => d <= c
        IN  normalize(At(row, last))]

\* headers.forEach((h, i) => { obj[h] = normalize(row[i]); })
RowObject(headers, row) ==
    [h \in Range(headers) |->
        LET last == CHOOSE c \in DOMAIN headers :
                        /\ headers[c] = h
                        /\ \A d \in DOMAIN headers : headers[d] = h => d <= c
        IN  normalize(At(row, last))]

FromWorkbook(sheet) ==
    IF Len(sheet.rows) = 0 THEN <<>>
    ELSE LET headers == [c \in DOMAIN sheet.rows[1] |-> normalize(Just(sheet.rows[1][c]))]
             data == Tail(sheet.rows)
         IN  [n \in DOMAIN data |-> RowObject(headers, data[n])]

FromCsv(csv) ==
    [n \in DOMAIN csv.records |->
        [key \in DOMAIN csv.records[n] |-> normalize(Just(csv.records[n][key]))]]

\* The loader as it would be if a missing source were read as an empty table.
getDataRowsNoThrow ==
    IF excelFile # Absent THEN [threw |-> "", rows |-> FromWorkbook(excelFile)]
    ELSE IF csvFile # Absent THEN [threw |-> "", rows |-> FromCsv(csvFile)]
    ELSE [threw |-> "", rows |-> <<>>]

\* getDataRows(): the rows, or the Error it throws when neither file exists.
getDataRows ==
    IF excelFile # Absent THEN [threw |-> "", rows |-> FromWorkbook(excelFile)]
    ELSE IF csvFile # Absent THEN [threw |-> "", rows |-> FromCsv(csvFile)]
    ELSE [threw |-> "Neither map_data.xlsx nor map_data.csv found", rows |-> <<>>]

(***************************************************************************)
(* The category table and the row loop                                     *)
(***************************************************************************)
Pair(pillar, pillarCategory) == Arr(<<pillar, pillarCategory>>)

\* The table as it would be if its key for the grouped Engine category
\* carried the display spelling.
categoryToPillarAmerican ==
    Obj(<<Entry("Research & Intelligence",
                Pair(Just("Brain"), Just("Research & Intelligence"))),
          Entry("Strategy & Creative Production",
                Pair(Just("Brain"), Just("Strategy & Creative Production"))),
          Entry("Field & Mobilization", Pair(Just("Engine"), Nothing)),
          Entry("Campaign Management & CRM", Pair(Just("Engine"), Nothing)),
          Entry("Fundraising & Payments", Pair(Just("Engine"), Nothing)),
          Entry("Organizational Infrastructure",
                Pair(Just("Engine"), Just("Organizational Infrastructure"))),
          Entry("Digital Comms & Advertising",
                Pair(Just("Megaphone"), Just("Digital Communications and Advertising"))),
          Entry("Information Integrity & Defense", Pair(Just("Megaphone"), Nothing)),
          Entry("Social Media & Management", Pair(Just("Megaphone"), Nothing)),
          Entry("Participation & Election Tech", Pair(Just("Megaphone"), Nothing))>>)

categoryToPillar ==
    Obj(<<Entry("Research & Intelligence",
                Pair(Just("Brain"), Just("Research & Intelligence"))),
          Entry("Strategy & Creative Production",
                Pair(Just("Brain"), Just("Strategy & Creative Production"))),
          Entry("Field & Mobilization", Pair(Just("Engine"), Nothing)),
          Entry("Campaign Management & CRM", Pair(Just("Engine"), Nothing)),
          Entry("Fundraising & Payments", Pair(Just("Engine"), Nothing)),
          Entry("Organisational Infrastructure",
                Pair(Just("Engine"), Just("Organizational Infrastructure"))),
          Entry("Digital Comms & Advertising",
                Pair(Just("Megaphone"), Just("Digital Communications and Advertising"))),
          Entry("Information Integrity & Defense", Pair(Just("Megaphone"), Nothing)),
          Entry("Social Media & Management", Pair(Just("Megaphone"), Nothing)),
          Entry("Participation & Election Tech", Pair(Just("Megaphone"), Nothing))>>)

\* The script's buckets as the module initialises them.
InitialCompaniesByPillar ==
    Obj(<<Entry("Brain",
                Obj(<<Entry("Research & Intelligence", Obj(<<>>)),
                      Entry("Strategy & Creative Production", Obj(<<>>))>>)),
          Entry("Engine", Obj(<<>>)),
          Entry("Megaphone", Obj(<<>>))>>)

InitialDigitalCommsSubcats == Obj(<<>>)

\* The company literal as it would be if the optional members were written
\* like domain and description, `|| ''`.
CompanyAllFields(entity, domain, description, hq, logo, hubUrl) ==
    [name |-> entity, domain |-> domain, description |-> description,
     hq |-> hq, logo |-> logo, hub_url |-> hubUrl]

\* The company literal and its three optional members.
Company(entity, domain, description, hq, logo, hubUrl) ==
    [f \in {"name", "domain", "description"}
            \cup (IF hq # "" THEN {"hq"} ELSE {})
            \cup (IF logo # "" THEN {"logo"} ELSE {})
            \cup (IF hubUrl # "" THEN {"hub_url"} ELSE {}) |->
        CASE f = "name" -> entity
          [] f = "domain" -> domain
          [] f = "description" -> description
          [] f = "hq" -> hq
          [] f = "logo" -> logo
          [] f = "hub_url" -> hubUrl]

\* The company of a row as it would be if only the Hub URL column were read.
CompanyOfHubUrlColumnOnly(row) ==
    Company(normalize(Field(row, "Entity")),
            normalize(Field(row, "Domain")),
            normalize(Field(row, "Description")),
            normalize(Field(row, "HQ")),
            normalize(Field(row, "Logo")),
            normalize(OrStr(Field(row, "Hub URL"), Just(""))))

CompanyOf(row) ==
    Company(normalize(Field(row, "Entity")),
            normalize(Field(row, "Domain")),
            normalize(Field(row, "Description")),
            normalize(Field(row, "HQ")),
            normalize(Field(row, "Logo")),
            normalize(OrStr(Field(row, "Hub URL"), OrStr(Field(row, "hub_url"), Just("")))))

\* console.warn of the two message templates, as the pieces they join.
UnmappedWarning(category) ==
    <<"Warning: Category \"", category, "\" not mapped to any pillar">>
NoSubcategoryWarning(entity, category) ==
    <<"Warning: ", entity, " in ", category, " has no subcategory">>

Warn(s, message) == [s EXCEPT !.warnings = Append(@, message)]

\* if (!o[path]) o[path] = []; o[path].push(company) on the buckets
\* `which` of the loop state s; a push on anything but an array throws.
PushCompany(s, which, path, company) ==
    LET ensured == EnsureAt(s[which], path, Arr(<<>>))
    IN  IF CanPushAt(ensured, path)
        THEN [s EXCEPT ![which] = PushAt(ensured, path, company)]
        ELSE [s EXCEPT ![which] = ensured, !.error = "TypeError"]

BrainBranch(s, pillarCategory, entity, category, subcategory, company) ==
    IF TruthyStr(pillarCategory)
    THEN IF subcategory # ""
         THEN PushCompany(s, "companiesByPillar",
                          <<"Brain", pillarCategory[1], subcategory>>, company)
         ELSE Warn(s, NoSubcategoryWarning(entity, category))
    ELSE s

\* The Engine branch as it would be if a grouped category without Sub
\* Category fell back to the flat placement.
EngineBranchFlatFallback(s, pillarCategory, entity, category, subcategory, company) ==
    IF TruthyStr(pillarCategory) /\ subcategory # ""
    THEN LET made == [s EXCEPT !.companiesByPillar =
                         EnsureAt(@, <<"Engine", "Organizational Infrastructure">>,
                                  Obj(<<>>))]
         IN  PushCompany(made, "companiesByPillar",
                         <<"Engine", "Organizational Infrastructure", subcategory>>,
                         company)
    ELSE PushCompany(s, "companiesByPillar", <<"Engine", category>>, company)

\* The Engine branch as it would be if a flat category grouped the rows
\* that carry a Sub Category.
EngineBranchGrouping(s, pillarCategory, entity, category, subcategory, company) ==
    IF TruthyStr(pillarCategory)
    THEN IF subcategory # ""
         THEN LET made == [s EXCEPT !.companiesByPillar =
                              EnsureAt(@, <<"Engine", "Organizational Infrastructure">>,
                                       Obj(<<>>))]
              IN  PushCompany(made, "companiesByPillar",
                              <<"Engine", "Organizational Infrastructure", subcategory>>,
                              company)
         ELSE Warn(s, NoSubcategoryWarning(entity, category))
    ELSE IF subcategory # ""
         THEN LET made == [s EXCEPT !.companiesByPillar =
                              EnsureAt(@, <<"Engine", category>>, Obj(<<>>))]
              IN  PushCompany(made, "companiesByPillar",
                              <<"Engine", category, subcategory>>, company)
         ELSE PushCompany(s, "companiesByPillar", <<"Engine", category>>, company)

\* The Engine branch as it would be if the grouped category were created
\* before the Sub Category is tested.
EngineBranchEagerKey(s, pillarCategory, entity, category, subcategory, company) ==
    IF TruthyStr(pillarCategory)
    THEN LET made == [s EXCEPT !.companiesByPillar =
                         EnsureAt(@, <<"Engine", "Organizational Infrastructure">>,
                                  Obj(<<>>))]
         IN  IF subcategory # ""
             THEN PushCompany(made, "companiesByPillar",
                              <<"Engine", "Organizational Infrastructure", subcategory>>,
                              company)
             ELSE Warn(made, NoSubcategoryWarning(entity, category))
    ELSE PushCompany(s, "companiesByPillar", <<"Engine", category>>, company)

EngineBranch(s, pillarCategory, entity, category, subcategory, company) ==
    IF TruthyStr(pillarCategory)
    THEN IF subcategory # ""
         THEN LET made == [s EXCEPT !.companiesByPillar =
                              EnsureAt(@, <<"Engine", "Organizational Infrastructure">>,
                                       Obj(<<>>))]
              IN  PushCompany(made, "companiesByPillar",
                              <<"Engine", "Organizational Infrastructure", subcategory>>,
                              company)
         ELSE Warn(s, NoSubcategoryWarning(entity, category))
    ELSE PushCompany(s, "companiesByPillar", <<"Engine", category>>, company)

\* The Megaphone branch as it would be if Digital Comms rows were grouped
\* in companiesByPillar under the display name, like the other grouped
\* categories, instead of in digitalCommsSubcats.
MegaphoneBranchIntoPillar(s, entity, category, subcategory, company) ==
    IF category = "Digital Comms & Advertising"
    THEN IF subcategory # ""
         THEN LET made == [s EXCEPT !.companiesByPillar =
                              EnsureAt(@, <<"Megaphone", "Digital Communications and Advertising">>,
                                       Obj(<<>>))]
              IN  PushCompany(made, "companiesByPillar",
                              <<"Megaphone", "Digital Communications and Advertising", subcategory>>,
                              company)
         ELSE Warn(s, NoSubcategoryWarning(entity, "Digital Comms & Advertising"))
    ELSE IF category = "Participation & Election Tech"
    THEN IF subcategory # ""
         THEN LET made == [s EXCEPT !.companiesByPillar =
                              EnsureAt(@, <<"Megaphone", "Participation & Election Tech">>,
                                       Obj(<<>>))]
              IN  PushCompany(made, "companiesByPillar",
                              <<"Megaphone", "Participation & Election Tech", subcategory>>,
                              company)
         ELSE PushCompany(s, "companiesByPillar",
                          <<"Megaphone", "Participation & Election Tech">>, company)
    ELSE s

MegaphoneBranch(s, entity, category, subcategory, company) ==
    IF category = "Digital Comms & Advertising"
    THEN IF subcategory # ""
         THEN PushCompany(s, "digitalCommsSubcats", <<subcategory>>, company)
         ELSE Warn(s, NoSubcategoryWarning(entity, "Digital Comms & Advertising"))
    ELSE IF category = "Participation & Election Tech"
    THEN IF subcategory # ""
         THEN LET made == [s EXCEPT !.companiesByPillar =
                              EnsureAt(@, <<"Megaphone", "Participation & Election Tech">>,
                                       Obj(<<>>))]
              IN  PushCompany(made, "companiesByPillar",
                              <<"Megaphone", "Participation & Election Tech", subcategory>>,
                              company)
         ELSE PushCompany(s, "companiesByPillar",
                          <<"Megaphone", "Participation & Election Tech">>, company)
    ELSE s

\* const [pillar, pillarCategory] = categoryToPillar[category] || [null, null]
\* and what follows it; destructuring anything but an array throws.
Route(s, entity, category, subcategory, company) ==
    LET found == Get(categoryToPillar, category)
        pair == IF Truthy(found) THEN found ELSE Pair(Nothing, Nothing)
    IN  IF pair.kind # "array" THEN [s EXCEPT !.error = "TypeError"]
        ELSE LET pillar == pair.items[1]
                 pillarCategory == pair.items[2]
             IN  IF ~TruthyStr(pillar) THEN Warn(s, UnmappedWarning(category))
                 ELSE IF pillar[1] = "Brain"
                 THEN BrainBranch(s, pillarCategory, entity, category, subcategory, company)
                 ELSE IF pillar[1] = "Engine"
                 THEN EngineBranch(s, pillarCategory, entity, category, subcategory, company)
                 ELSE IF pillar[1] = "Megaphone"
                 THEN MegaphoneBranch(s, entity, category, subcategory, company)
                 ELSE s

\* The skip test with one of its two operands forgotten.
SkippedEntityOnly(entity, category) == entity = ""
SkippedCategoryOnly(entity, category) == category = ""

\* if (!entity || !category) continue;
Skipped(entity, category) == entity = "" \/ category = ""

\* One iteration of the row loop on the loop state s.
LoopBody(s, row) ==
    LET entity == normalize(Field(row, "Entity"))
        category == normalize(Field(row, "Category"))
        subcategory == normalize(Field(row, "Sub Category"))
    IN  IF Skipped(entity, category) THEN s
        ELSE Route(s, entity, category, subcategory, CompanyOf(row))

LoopState ==
    [companiesByPillar |-> companiesByPillar,
     digitalCommsSubcats |-> digitalCommsSubcats,
     warnings |-> warnings,
     error |-> error]

(***************************************************************************)
(* Result assembly and the write                                           *)
(***************************************************************************)
engineOrder == <<"Field & Mobilization", "Campaign Management & CRM",
                 "Fundraising & Payments", "Organizational Infrastructure">>

\* for (const [key, value] of Object.entries(from)) if (keep(key)) to[key] = value
RECURSIVE CopyEntries(_, _, _)
CopyEntries(to, entries, skip) ==
    IF entries = <<>> THEN to
    ELSE LET e == Head(entries)
         IN  CopyEntries(IF e.k \in skip THEN to ELSE Set(to, e.k, e.v),
                         Tail(entries), skip)

\* The Engine copy writing every key of engineOrder, `|| []` for a missing one.
RECURSIVE CopyOrderedAll(_, _, _)
CopyOrderedAll(to, from, keys) ==
    IF keys = <<>> THEN to
    ELSE CopyOrderedAll(Set(to, Head(keys),
                            IF In(from, Head(keys)) THEN Get(from, Head(keys))
                            ELSE Arr(<<>>)),
                        from, Tail(keys))

\* for (const key of engineOrder) { if (!(key in Engine)) continue; ... }
RECURSIVE CopyOrdered(_, _, _)
CopyOrdered(to, from, keys) ==
    IF keys = <<>> THEN to
    ELSE CopyOrdered(IF In(from, Head(keys))
                     THEN Set(to, Head(keys), Get(from, Head(keys)))
                     ELSE to,
                     from, Tail(keys))

\* for (const [subcat, companies] of Object.entries(dcs))
\*   if (companies.length) merged[subcat] = companies
RECURSIVE CopyNonEmpty(_, _)
CopyNonEmpty(to, entries) ==
    IF entries = <<>> THEN to
    ELSE LET e == Head(entries)
         IN  CopyNonEmpty(IF Len(e.v.items) # 0 THEN Set(to, e.k, e.v) ELSE to,
                          Tail(entries))

\* result.Brain as it would be if the categories that received no company
\* were left out.
ResultBrainNonEmpty(cbp) ==
    CopyEntries(Obj(<<>>),
                SelectSeq(Get(cbp, "Brain").entries, LAMBDA e : e.v.entries # <<>>), {})

ResultBrain(cbp) == CopyEntries(Obj(<<>>), Get(cbp, "Brain").entries, {})

\* The Engine copy in the insertion order of the buckets.
ResultEngineInsertionOrder(cbp) ==
    CopyEntries(Obj(<<>>), Get(cbp, "Engine").entries, {})

ResultEngine(cbp) == CopyOrdered(Obj(<<>>), Get(cbp, "Engine"), engineOrder)

\* The merge without its `if (Object.keys(digitalCommsSubcats).length)`.
ResultMegaphoneUnguarded(cbp, dcs) ==
    CopyEntries(Set(Obj(<<>>), "Digital Communications and Advertising",
                    CopyNonEmpty(Obj(<<>>), dcs.entries)),
                Get(cbp, "Megaphone").entries,
                {"Digital Communications and Advertising"})

\* The Megaphone copy as it would be if the Digital Comms merge came after
\* the copy of the other categories.
ResultMegaphoneDigitalLast(cbp, dcs) ==
    LET others == CopyEntries(Obj(<<>>), Get(cbp, "Megaphone").entries,
                              {"Digital Communications and Advertising"})
    IN  IF Len(dcs.entries) # 0
        THEN Set(others, "Digital Communications and Advertising",
                 CopyNonEmpty(Obj(<<>>), dcs.entries))
        ELSE others

ResultMegaphone(cbp, dcs) ==
    LET merged == IF Len(dcs.entries) # 0
                  THEN Set(Obj(<<>>), "Digital Communications and Advertising",
                           CopyNonEmpty(Obj(<<>>), dcs.entries))
                  ELSE Obj(<<>>)
    IN  CopyEntries(merged, Get(cbp, "Megaphone").entries,
                    {"Digital Communications and Advertising"})

\* The result as it would be if a pillar without categories were left out.
ResultOmitEmptyPillars(cbp, dcs) ==
    Obj(SelectSeq(<<Entry("Brain", ResultBrain(cbp)),
                    Entry("Engine", ResultEngine(cbp)),
                    Entry("Megaphone", ResultMegaphone(cbp, dcs))>>,
                  LAMBDA e : e.v.entries # <<>>))

Result(cbp, dcs) ==
    Obj(<<Entry("Brain", ResultBrain(cbp)),
          Entry("Engine", ResultEngine(cbp)),
          Entry("Megaphone", ResultMegaphone(cbp, dcs))>>)

\* JSON.stringify: an object gives its own properties in order, an array its
\* elements only (properties set on an array are not written), a company
\* its members.
RECURSIVE Json(_)
Json(v) ==
    IF "kind" \notin DOMAIN v THEN v
    ELSE IF v.kind = "array"
    THEN [kind |-> "array",
          items |-> IF Len(v.items) = 0 THEN <<>>
                    ELSE [n \in DOMAIN v.items |-> Json(v.items[n])]]
    ELSE [kind |-> "object",
          entries |-> IF Len(v.entries) = 0 THEN <<>>
                      ELSE [n \in DOMAIN v.entries |->
                              Entry(v.entries[n].k, Json(v.entries[n].v))]]


(***************************************************************************)
(* The run                                                                 *)
(***************************************************************************)
\* A companiesV2.json published by an earlier version of the table.
OldJson ==
    LET company == Company("Legacy", "legacy.eu", "", "", "", "")
        path == <<"Engine", "Fundraising & Payments">>
        buckets == PushAt(EnsureAt(InitialCompaniesByPillar, path, Arr(<<>>)),
                          path, company)
    IN  Json(Result(buckets, InitialDigitalCommsSubcats))

NoRun == [run |-> 0]

Init ==
    /\ \/ \E t \in Tables :
             \/ excelFile = Sheet(t) /\ csvFile = Absent
             \/ excelFile = Sheet(t) /\ csvFile = StaleCsv
             \/ excelFile = Absent /\ csvFile = Csv(t)
       \/ excelFile = EmptySheet /\ csvFile = Absent
       \/ excelFile = RaggedSheet /\ csvFile = Absent
       \/ excelFile = Absent /\ csvFile = Absent
    /\ jsonFile \in {Absent, OldJson}
    /\ pc = "start"
    /\ error = ""
    /\ rows = <<>>
    /\ i = 0
    /\ companiesByPillar = InitialCompaniesByPillar
    /\ digitalCommsSubcats = InitialDigitalCommsSubcats
    /\ warnings = <<>>
    /\ run = 1
    /\ jsonBefore = jsonFile
    /\ lastRun = NoRun

\* A published document read back as buckets.
RECURSIVE Thaw(_)
Thaw(v) ==
    IF "kind" \notin DOMAIN v THEN v
    ELSE IF v.kind = "array" THEN Arr(v.items)
    ELSE Obj([n \in DOMAIN v.entries |-> Entry(v.entries[n].k, Thaw(v.entries[n].v))])

\* The initialisation as it would be if the run started from the published
\* file instead of from empty buckets.
StartFromPublished ==
    /\ pc = "start"
    /\ companiesByPillar' =
          IF jsonFile = Absent THEN InitialCompaniesByPillar ELSE Thaw(jsonFile)
    /\ digitalCommsSubcats' = InitialDigitalCommsSubcats
    /\ warnings' = <<>>
    /\ LET got == getDataRows
       IN  /\ rows' = got.rows
           /\ error' = got.threw
           /\ IF got.threw = ""
              THEN i' = 1 /\ pc' = "loop"
              ELSE i' = 0 /\ pc' = "exit"
    /\ UNCHANGED <<excelFile, csvFile, jsonFile, run, jsonBefore, lastRun>>

\* Module initialisation up to the call of getDataRows() in the loop header.
Start ==
    /\ pc = "start"
    /\ companiesByPillar' = InitialCompaniesByPillar
    /\ digitalCommsSubcats' = InitialDigitalCommsSubcats
    /\ warnings' = <<>>
    /\ LET got == getDataRows
       IN  /\ rows' = got.rows
           /\ error' = got.threw
           /\ IF got.threw = ""
              THEN i' = 1 /\ pc' = "loop"
              ELSE i' = 0 /\ pc' = "exit"
    /\ UNCHANGED <<excelFile, csvFile, jsonFile, run, jsonBefore, lastRun>>

\* One iteration of `for (const row of getDataRows())`.
ProcessRow ==
    /\ pc = "loop"
    /\ i <= Len(rows)
    /\ LET s == LoopBody(LoopState, rows[i])
       IN  /\ companiesByPillar' = s.companiesByPillar
           /\ digitalCommsSubcats' = s.digitalCommsSubcats
           /\ warnings' = s.warnings
           /\ error' = s.error
           /\ IF s.error # ""
              THEN pc' = "exit" /\ i' = i
              ELSE pc' = "loop" /\ i' = i + 1
    /\ UNCHANGED <<excelFile, csvFile, jsonFile, rows, run, jsonBefore, lastRun>>

\* The write as it would be if the new pillars were laid over those of the
\* published file, category by category, instead of replacing the file.
WriteOutputMerging ==
    /\ pc = "loop"
    /\ i > Len(rows)
    /\ LET fresh == Json(Result(companiesByPillar, digitalCommsSubcats))
           prior == IF jsonFile = Absent THEN Json(Result(InitialCompaniesByPillar,
                                                         InitialDigitalCommsSubcats))
                    ELSE jsonFile
       IN  jsonFile' =
              Obj([n \in DOMAIN fresh.entries |->
                     Entry(fresh.entries[n].k,
                           CopyEntries(Get(prior, fresh.entries[n].k),
                                       fresh.entries[n].v.entries, {}))])
    /\ pc' = "exit"
    /\ UNCHANGED <<excelFile, csvFile, error, rows, i, companiesByPillar,
                   digitalCommsSubcats, warnings, run, jsonBefore, lastRun>>

\* After the loop: assemble result and writeFileSync.
WriteOutput ==
    /\ pc = "loop"
    /\ i > Len(rows)
    /\ jsonFile' = Json(Result(companiesByPillar, digitalCommsSubcats))
    /\ pc' = "exit"
    /\ UNCHANGED <<excelFile, csvFile, error, rows, i, companiesByPillar,
                   digitalCommsSubcats, warnings, run, jsonBefore, lastRun>>

\* The editor runs the script again on the unchanged source files.
Rerun ==
    /\ pc = "exit"
    /\ run < MaxRuns
    /\ run' = run + 1
    /\ jsonBefore' = jsonFile
    /\ lastRun' = [run |-> run, json |-> jsonFile, warnings |-> warnings, error |-> error]
    /\ pc' = "start"
    /\ error' = ""
    /\ rows' = <<>>
    /\ i' = 0
    /\ companiesByPillar' = InitialCompaniesByPillar
    /\ digitalCommsSubcats' = InitialDigitalCommsSubcats
    /\ warnings' = <<>>
    /\ UNCHANGED <<excelFile, csvFile, jsonFile>>

Next == Start \/ ProcessRow \/ WriteOutput

Spec == Init /\ [][Next]_vars

NextRerun == Start \/ ProcessRow \/ WriteOutput \/ Rerun

SpecRerun == Init /\ [][NextRerun]_vars

\* The run is over: exit code 0 when no exception escaped.
Exited == pc = "exit"
Succeeded == pc = "exit" /\ error = ""
Failed == pc = "exit" /\ error # ""


(***************************************************************************)
(* Vocabulary of the properties                                            *)
(***************************************************************************)
SourceFound == excelFile # Absent \/ csvFile # Absent

EntityOf(row) == normalize(Field(row, "Entity"))
CategoryOf(row) == normalize(Field(row, "Category"))
SubcategoryOf(row) == normalize(Field(row, "Sub Category"))

TableKeys == {categoryToPillar.entries[n].k : n \in DOMAIN categoryToPillar.entries}

\* The row the loop is about to process, when there is one.
AtRow == pc = "loop" /\ i <= Len(rows)
\* The rows the loop has gone through without an exception.
Processed == IF pc = "start" THEN {} ELSE {n \in DOMAIN rows : n < i}

BucketsUnchanged ==
    /\ companiesByPillar' = companiesByPillar
    /\ digitalCommsSubcats' = digitalCommsSubcats
LoopContinues == pc' = "loop" /\ i' = i + 1 /\ error' = ""

\* The leaves of a written document: the company list of a flat category,
\* or of a subcategory of a grouped one, with the path of keys leading to it.
LeavesOfCategory(pillar, cat) ==
    IF cat.v.kind = "array"
    THEN {[path |-> <<pillar.k, cat.k>>, items |-> cat.v.items]}
    ELSE {[path |-> <<pillar.k, cat.k, sub.k>>, items |-> sub.v.items] :
            sub \in Range(cat.v.entries)}
Leaves(doc) ==
    UNION {UNION {LeavesOfCategory(pillar, cat) : cat \in Range(pillar.v.entries)} :
            pillar \in Range(doc.entries)}

\* How many times the company c is written in the document.
Occurrences(doc, c) ==
    Cardinality(UNION {{<<leaf.path, n>> : n \in {m \in DOMAIN leaf.items : leaf.items[m] = c}} :
                        leaf \in Leaves(doc)})

\* The categories (key and value) written under a pillar of the document.
CategoriesIn(doc, pillarName) ==
    UNION {Range(pillar.v.entries) : pillar \in {q \in Range(doc.entries) : q.k = pillarName}}
KeysIn(doc, pillarName) ==
    LET pillar == CHOOSE q \in Range(doc.entries) : q.k = pillarName
    IN  [n \in DOMAIN pillar.v.entries |-> pillar.v.entries[n].k]

EmptyValue(v) ==
    IF v.kind = "array" THEN Len(v.items) = 0 ELSE Len(v.entries) = 0

\* The company list written at a path of the document, empty when the
\* document has no list there.
ItemsAt(doc, path) ==
    LET found == {leaf \in Leaves(doc) : leaf.path = path}
    IN  IF found = {} THEN <<>> ELSE (CHOOSE leaf \in found : TRUE).items

\* How many times the company c stands in a list.
CountIn(items, c) == Cardinality({n \in DOMAIN items : items[n] = c})

\* The indices of the first n rows that keep marks, in row order.
RECURSIVE IndicesKept(_, _)
IndicesKept(keep, n) ==
    IF n = 0 THEN <<>>
    ELSE IndicesKept(keep, n - 1) \o (IF keep[n] THEN <<n>> ELSE <<>>)

\* The companies of the first n rows of the table that keep marks, in row
\* order.
RECURSIVE CompaniesKept(_, _, _)
CompaniesKept(table, keep, n) ==
    IF n = 0 THEN <<>>
    ELSE CompaniesKept(table, keep, n - 1)
            \o (IF keep[n] THEN <<CompanyOf(table[n])>> ELSE <<>>)

\* The loop over a whole table from the loop state s, stopping at the first
\* exception.
RECURSIVE LoopOver(_, _)
LoopOver(s, table) ==
    IF table = <<>> \/ s.error # "" THEN s
    ELSE LoopOver(LoopBody(s, Head(table)), Tail(table))

\* The document a run over the table writes, as a function of the table
\* alone.
OutputOf(table) ==
    LET s == LoopOver([companiesByPillar |-> InitialCompaniesByPillar,
                       digitalCommsSubcats |-> InitialDigitalCommsSubcats,
                       warnings |-> <<>>,
                       error |-> ""], table)
    IN  Json(Result(s.companiesByPillar, s.digitalCommsSubcats))

(***************************************************************************)
(* C1..C5                                                                  *)
(***************************************************************************)
\* C1 (placement uniqueness, as claimed): in a written output, every row with
\* a non-empty Entity and a Category that is a key of categoryToPillar has
\* its company written exactly once: the document holds as many copies of a
\* company as there are such rows giving that company.  Rows that lack the
\* Sub Category their category requires are left out of the count: the
\* placement rules skip them with a warning.
RequiresSubcategory(category) ==
    /\ category \in TableKeys
    /\ TruthyStr(Own(categoryToPillar, category).items[2])
C1Eligible(row) ==
    /\ EntityOf(row) # ""
    /\ CategoryOf(row) \in TableKeys
    /\ RequiresSubcategory(CategoryOf(row)) => SubcategoryOf(row) # ""
C1_PlacementUniqueness ==
    Succeeded =>
        \A r \in DOMAIN rows :
            C1Eligible(rows[r]) =>
                Occurrences(jsonFile, CompanyOf(rows[r])) =
                    Cardinality({q \in DOMAIN rows :
                                    /\ C1Eligible(rows[q])
                                    /\ CompanyOf(rows[q]) = CompanyOf(rows[r])})

\* C2 (row-level failures are never fatal, as claimed): whenever a source
\* file exists the run ends without an exception, having written the
\* document assembled from the buckets.  Stated for the tables whose
\* Category and Sub Category cells are ordinary labels (none is the name of
\* a member of Object.prototype).
OrdinaryLabels ==
    \A n \in DOMAIN rows :
        {CategoryOf(rows[n]), SubcategoryOf(rows[n])} \cap ArrayPrototype = {}
C2_NoRowAbortsTheRun ==
    (Exited /\ SourceFound /\ OrdinaryLabels) =>
        /\ error = ""
        /\ jsonFile = Json(Result(companiesByPillar, digitalCommsSubcats))

\* C3 (required-field skip, as claimed): processing a row with a non-empty
\* Entity and an empty Category leaves the buckets alone and logs exactly
\* one warning, which names the entity.
C3Row == AtRow /\ EntityOf(rows[i]) # "" /\ CategoryOf(rows[i]) = ""
C4Row == AtRow /\ EntityOf(rows[i]) = ""
C4_EmptyEntitySkippedSilently ==
    [][C4Row => BucketsUnchanged /\ warnings' = warnings /\ LoopContinues]_vars

C4_Witness ==
    /\ Succeeded
    /\ \E n \in Processed : EntityOf(rows[n]) = "" /\ CategoryOf(rows[n]) \in TableKeys

\* C5 (unrecognized category, as claimed): processing a row with a non-empty
\* Entity and a non-empty Category that is no key of categoryToPillar leaves
\* the buckets alone, logs exactly one warning, which names the category,
\* and the loop goes on.
C5Row ==
    AtRow /\ EntityOf(rows[i]) # "" /\ CategoryOf(rows[i]) \notin TableKeys \cup {""}
C5_UnmappedCategoryWarns ==
    [][C5Row =>
        /\ BucketsUnchanged
        /\ warnings' = Append(warnings, UnmappedWarning(CategoryOf(rows[i])))
        /\ LoopContinues]_vars


(***************************************************************************)
(* C6..C10                                                                 *)
(***************************************************************************)
\* C6 (no empty category, as claimed): in a written output no category of
\* Brain, Engine or Megaphone has an empty list or an empty map as value.
C6_NoEmptyCategory ==
    Succeeded =>
        \A pillarName \in {"Brain", "Engine", "Megaphone"} :
            \A cat \in CategoriesIn(jsonFile, pillarName) : ~EmptyValue(cat.v)

\* C6 (amended): in a written output no category of Engine or Megaphone has
\* an empty list or an empty map as value.
C6_NoEmptyEngineOrMegaphoneCategory ==
    Succeeded =>
        \A pillarName \in {"Engine", "Megaphone"} :
            \A cat \in CategoriesIn(jsonFile, pillarName) : ~EmptyValue(cat.v)

C6_Witness ==
    /\ Succeeded
    /\ CategoriesIn(jsonFile, "Engine") # {}
    /\ CategoriesIn(jsonFile, "Megaphone") # {}
    /\ \E cat \in CategoriesIn(jsonFile, "Brain") : EmptyValue(cat.v)

\* C7 (no empty leaves): in a written output every company list, whether the
\* value of a category key or of a subcategory key, has at least one company.
C7_NoEmptyLeaves ==
    Succeeded => \A leaf \in Leaves(jsonFile) : Len(leaf.items) > 0

C7_Witness ==
    /\ Succeeded
    /\ \E leaf \in Leaves(jsonFile) : Len(leaf.path) = 3
    /\ \E n \in Processed :
          /\ EntityOf(rows[n]) # ""
          /\ RequiresSubcategory(CategoryOf(rows[n]))
          /\ SubcategoryOf(rows[n]) = ""

\* C8 (Engine ordering): in a written output the Engine keys are engineOrder
\* with the categories that received no row left out, whatever the order of
\* the rows in the table.
EngineKeyOf(row) ==
    IF CategoryOf(row) = "Organisational Infrastructure"
    THEN "Organizational Infrastructure"
    ELSE CategoryOf(row)
EnginePlaced ==
    {EngineKeyOf(rows[n]) : n \in
        {m \in DOMAIN rows :
            /\ EntityOf(rows[m]) # ""
            /\ \/ CategoryOf(rows[m]) \in {"Field & Mobilization",
                                            "Campaign Management & CRM",
                                            "Fundraising & Payments"}
               \/ /\ CategoryOf(rows[m]) = "Organisational Infrastructure"
                  /\ SubcategoryOf(rows[m]) # ""}}
IsEnginePlaced(key) == key \in EnginePlaced
C8_EngineOrdering ==
    Succeeded => KeysIn(jsonFile, "Engine") = SelectSeq(engineOrder, IsEnginePlaced)

C8_Witness ==
    /\ Succeeded
    /\ Len(rows) = 2
    /\ EntityOf(rows[1]) # "" /\ CategoryOf(rows[1]) = "Fundraising & Payments"
    /\ EntityOf(rows[2]) # "" /\ CategoryOf(rows[2]) = "Field & Mobilization"
    /\ KeysIn(jsonFile, "Engine") = <<"Field & Mobilization", "Fundraising & Payments">>

\* C9 (idempotence): a run of the script on the unchanged source files ends
\* as the run before it did: the same published document, the same warnings
\* in the same order, the same exception if any.
C9_Idempotent ==
    (Exited /\ run > 1) =>
        /\ jsonFile = lastRun.json
        /\ warnings = lastRun.warnings
        /\ error = lastRun.error

C9_Witness ==
    /\ Exited /\ run > 1 /\ error = ""
    /\ warnings # <<>>
    /\ Leaves(jsonFile) # {}
    /\ jsonFile # OldJson

\* C10 (fatal path): when neither map_data.xlsx nor map_data.csv exists the
\* run ends with the Error of getDataRows and the published file is at every
\* moment what it was before the run.
C10_FatalPathLeavesOutput ==
    ~SourceFound =>
        /\ jsonFile = jsonBefore
        /\ Exited => error = "Neither map_data.xlsx nor map_data.csv found"

C10_Witness == Exited /\ ~SourceFound /\ error # "" /\ jsonFile = OldJson

(***************************************************************************)
(* C11..C15                                                                *)
(***************************************************************************)
\* C11 (Participation & Election Tech placement, as claimed): in a written
\* output every row with a non-empty Entity and the Category 'Participation
\* & Election Tech' has its company in the list its Sub Category names,
\* Megaphone['Participation & Election Tech'][subcategory] when it has one
\* and the flat list Megaphone['Participation & Election Tech'] when it has
\* none, as many times as there are such rows giving that company for that
\* list.
ParticipationRow(row) ==
    EntityOf(row) # "" /\ CategoryOf(row) = "Participation & Election Tech"
ParticipationLeafOf(row) ==
    IF SubcategoryOf(row) # ""
    THEN <<"Megaphone", "Participation & Election Tech", SubcategoryOf(row)>>
    ELSE <<"Megaphone", "Participation & Election Tech">>
C11_ParticipationPlacement ==
    Succeeded =>
        \A r \in DOMAIN rows :
            ParticipationRow(rows[r]) =>
                CountIn(ItemsAt(jsonFile, ParticipationLeafOf(rows[r])), CompanyOf(rows[r])) =
                    Cardinality({q \in DOMAIN rows :
                                    /\ ParticipationRow(rows[q])
                                    /\ ParticipationLeafOf(rows[q]) = ParticipationLeafOf(rows[r])
                                    /\ CompanyOf(rows[q]) = CompanyOf(rows[r])})

\* C12 (missing required subcategory): processing a row with a non-empty
\* Entity, one of the four categories that require a Sub Category and an
\* empty Sub Category leaves the buckets alone and logs exactly one warning,
\* which names the entity and the category; the loop goes on.
NeedsSubcategory == {"Research & Intelligence", "Strategy & Creative Production",
                     "Organisational Infrastructure", "Digital Comms & Advertising"}
C12Row ==
    /\ AtRow
    /\ EntityOf(rows[i]) # ""
    /\ CategoryOf(rows[i]) \in NeedsSubcategory
    /\ SubcategoryOf(rows[i]) = ""
C12_MissingSubcategoryWarns ==
    [][C12Row =>
        /\ BucketsUnchanged
        /\ Len(warnings') = Len(warnings) + 1
        /\ SubSeq(warnings', 1, Len(warnings)) = warnings
        /\ EntityOf(rows[i]) \in Range(warnings'[Len(warnings')])
        /\ CategoryOf(rows[i]) \in Range(warnings'[Len(warnings')])
        /\ LoopContinues]_vars

\* The scenario of the specification: the one row Beta / Research &
\* Intelligence without Sub Category.
C12_Witness ==
    /\ Succeeded
    /\ Len(rows) = 1
    /\ EntityOf(rows[1]) = "Beta"
    /\ CategoryOf(rows[1]) = "Research & Intelligence"
    /\ SubcategoryOf(rows[1]) = ""
    /\ Occurrences(jsonFile, CompanyOf(rows[1])) = 0
    /\ Len(warnings) = 1 /\ "Beta" \in Range(warnings[1])

\* C13 (Digital Comms merge): in a written output the Megaphone category
\* 'Digital Communications and Advertising' exists exactly when some row with
\* a non-empty Entity, the Category 'Digital Comms & Advertising' and a Sub
\* Category was read; it is a map with one non-empty list per Sub Category
\* of those rows and no other key, and the list of a Sub Category holds the
\* companies of its rows in input order.
DigitalRow(row) ==
    /\ EntityOf(row) # ""
    /\ CategoryOf(row) = "Digital Comms & Advertising"
    /\ SubcategoryOf(row) # ""
DigitalCategories ==
    {cat \in CategoriesIn(jsonFile, "Megaphone") :
        cat.k = "Digital Communications and Advertising"}
C13_DigitalCommsMerged ==
    Succeeded =>
        LET placed == {r \in DOMAIN rows : DigitalRow(rows[r])}
        IN  /\ (DigitalCategories # {}) <=> (placed # {})
            /\ Cardinality(DigitalCategories) <= 1
            /\ \A cat \in DigitalCategories :
                    /\ cat.v.kind = "object"
                    /\ {sub.k : sub \in Range(cat.v.entries)} =
                            {SubcategoryOf(rows[r]) : r \in placed}
                    /\ \A sub \in Range(cat.v.entries) :
                            /\ sub.v.kind = "array"
                            /\ sub.v.items # <<>>
                            /\ sub.v.items =
                                    CompaniesKept(rows,
                                        [n \in DOMAIN rows |->
                                            /\ DigitalRow(rows[n])
                                            /\ SubcategoryOf(rows[n]) = sub.k],
                                        Len(rows))

\* The scenario of the specification: two rows of different entities with
\* the Sub Category 'Social Media & Management'.
C13_Witness ==
    /\ Succeeded
    /\ Len(rows) = 2
    /\ DigitalRow(rows[1]) /\ DigitalRow(rows[2])
    /\ SubcategoryOf(rows[1]) = "Social Media & Management"
    /\ SubcategoryOf(rows[2]) = "Social Media & Management"
    /\ EntityOf(rows[1]) # EntityOf(rows[2])
    /\ ItemsAt(jsonFile, <<"Megaphone", "Digital Communications and Advertising",
                           "Social Media & Management">>) =
            <<CompanyOf(rows[1]), CompanyOf(rows[2])>>

\* C14 (rename of the grouped Engine category): in a written output the
\* list Engine['Organizational Infrastructure'][subcategory] holds, in input
\* order, the companies of the rows with a non-empty Entity, the raw Category
\* 'Organisational Infrastructure' and that Sub Category, and of no other
\* row; 'Organisational Infrastructure' is the key of no pillar and of no
\* category of the output; and each row with a non-empty Entity and the raw Category
\* 'Organizational Infrastructure' is answered by the warning for an unmapped
\* category.
OrganisationalRow(row) ==
    /\ EntityOf(row) # ""
    /\ CategoryOf(row) = "Organisational Infrastructure"
    /\ SubcategoryOf(row) # ""
OrganizationalRow(row) ==
    EntityOf(row) # "" /\ CategoryOf(row) = "Organizational Infrastructure"
CategoryKeys(doc) ==
    {pillar.k : pillar \in Range(doc.entries)}
        \cup UNION {{cat.k : cat \in Range(pillar.v.entries)} : pillar \in Range(doc.entries)}
C14_OrganisationalRename ==
    Succeeded =>
        /\ \A sub \in {SubcategoryOf(rows[r]) : r \in DOMAIN rows}
                        \cup {leaf.path[3] : leaf \in {l \in Leaves(jsonFile) :
                                    /\ Len(l.path) = 3
                                    /\ l.path[2] = "Organizational Infrastructure"}} :
                sub # "" =>
                    ItemsAt(jsonFile, <<"Engine", "Organizational Infrastructure", sub>>) =
                        CompaniesKept(rows,
                            [n \in DOMAIN rows |->
                                OrganisationalRow(rows[n]) /\ SubcategoryOf(rows[n]) = sub],
                            Len(rows))
        /\ "Organisational Infrastructure" \notin CategoryKeys(jsonFile)
        /\ CountIn(warnings, UnmappedWarning("Organizational Infrastructure")) =
                Cardinality({r \in DOMAIN rows : OrganizationalRow(rows[r])})

C14_Witness ==
    /\ Succeeded
    /\ Len(rows) = 2
    /\ OrganisationalRow(rows[1]) /\ OrganizationalRow(rows[2])
    /\ SubcategoryOf(rows[1]) = SubcategoryOf(rows[2])
    /\ ItemsAt(jsonFile, <<"Engine", "Organizational Infrastructure", SubcategoryOf(rows[1])>>) =
            <<CompanyOf(rows[1])>>
    /\ warnings = <<UnmappedWarning("Organizational Infrastructure")>>

\* C15 (flat Engine categories): in a written output the list
\* Engine[category] of each of the three flat categories holds, in input
\* order, the companies of the rows with a non-empty Entity and that
\* Category, whatever their Sub Category; and processing such a row changes
\* the buckets, the warnings and the loop exactly as processing the same row
\* with any other Sub Category would.
FlatEngine == {"Field & Mobilization", "Campaign Management & CRM",
               "Fundraising & Payments"}
FlatEngineRow(row) == EntityOf(row) # "" /\ CategoryOf(row) \in FlatEngine
SomeSubcategories == {"", "CRM Platforms", "Hosting", "constructor"}
WithSubcategory(row, subcategory) == [row EXCEPT !["Sub Category"] = subcategory]
C15_FlatEngineIgnoresSubcategory ==
    /\ [](Succeeded =>
            \A category \in FlatEngine :
                ItemsAt(jsonFile, <<"Engine", category>>) =
                    CompaniesKept(rows,
                        [n \in DOMAIN rows |->
                            EntityOf(rows[n]) # "" /\ CategoryOf(rows[n]) = category],
                        Len(rows)))
    /\ [][(AtRow /\ FlatEngineRow(rows[i])) =>
            /\ LoopContinues
            /\ \A subcategory \in SomeSubcategories :
                    LoopBody(LoopState, WithSubcategory(rows[i], subcategory)) =
                        [companiesByPillar |-> companiesByPillar',
                         digitalCommsSubcats |-> digitalCommsSubcats',
                         warnings |-> warnings',
                         error |-> error']]_vars

\* The scenario of the specification, Acme / Field & Mobilization / acme.io,
\* followed by a row of a flat category that carries a Sub Category.
C15_Witness ==
    /\ Succeeded
    /\ Len(rows) = 2
    /\ ItemsAt(jsonFile, <<"Engine", "Field & Mobilization">>) =
            <<[name |-> "Acme", domain |-> "acme.io", description |-> ""]>>
    /\ FlatEngineRow(rows[2]) /\ SubcategoryOf(rows[2]) # ""
    /\ ItemsAt(jsonFile, <<"Engine", CategoryOf(rows[2])>>) = <<CompanyOf(rows[2])>>


(***************************************************************************)
(* C16..C20                                                                *)
(***************************************************************************)
\* C16 (Brain always has two slots): in a written output Brain holds exactly
\* the keys 'Research & Intelligence' and 'Strategy & Creative Production',
\* in that order, each with a map whose values are company lists, whether or
\* not a row was placed under Brain.
C16_BrainHasTwoSlots ==
    Succeeded =>
        /\ KeysIn(jsonFile, "Brain") =
                <<"Research & Intelligence", "Strategy & Creative Production">>
        /\ \A cat \in CategoriesIn(jsonFile, "Brain") :
                /\ cat.v.kind = "object"
                /\ \A sub \in Range(cat.v.entries) : sub.v.kind = "array"

\* A written output with companies elsewhere and none under Brain.
C16_Witness ==
    /\ Succeeded
    /\ Leaves(jsonFile) # {}
    /\ \A cat \in CategoriesIn(jsonFile, "Brain") : cat.v.entries = <<>>

\* C17 (company record shape): every company of a written output has the
\* members name, domain and description and no member besides hq, logo and
\* hub_url; its name is not empty, no optional member it has is the empty
\* string, and it is the record of a row of the input: name, domain and
\* description are the trimmed Entity, Domain and Description cells, and it
\* has hq, logo or hub_url exactly when the trimmed HQ, Logo or Hub URL cell
\* is not empty, with that value (for hub_url, the hub_url cell when the Hub
\* URL cell is empty).
Optional == {"hq", "logo", "hub_url"}
ColumnOf(member) ==
    CASE member = "name" -> "Entity"
      [] member = "domain" -> "Domain"
      [] member = "description" -> "Description"
      [] member = "hq" -> "HQ"
      [] member = "logo" -> "Logo"
      [] member = "hub_url" -> "Hub URL"
WrittenCompanies ==
    UNION {Range(leaf.items) : leaf \in Leaves(jsonFile)}
SourceOf(row, member) ==
    IF member = "hub_url" /\ normalize(Field(row, "Hub URL")) = ""
    THEN normalize(Field(row, "hub_url"))
    ELSE normalize(Field(row, ColumnOf(member)))
RecordOfRow(c, row) ==
    /\ \A member \in {"name", "domain", "description"} :
            c[member] = SourceOf(row, member)
    /\ \A member \in Optional :
            /\ member \in DOMAIN c <=> SourceOf(row, member) # ""
            /\ member \in DOMAIN c => c[member] = SourceOf(row, member)
C17_CompanyShape ==
    Succeeded =>
        \A c \in WrittenCompanies :
            /\ {"name", "domain", "description"} \subseteq DOMAIN c
            /\ DOMAIN c \subseteq {"name", "domain", "description"} \cup Optional
            /\ c.name # ""
            /\ \A member \in Optional \cap DOMAIN c : c[member] # ""
            /\ \E r \in DOMAIN rows : RecordOfRow(c, rows[r])

\* A written company with HQ and Hub URL, whose Logo cell held only blanks
\* and whose Description cell was empty.
C17_Witness ==
    /\ Succeeded
    /\ excelFile # Absent
    /\ \E c \in WrittenCompanies :
            /\ DOMAIN c = {"name", "domain", "description", "hq", "hub_url"}
            /\ c.description = ""
            /\ \E r \in DOMAIN rows :
                    /\ RecordOfRow(c, rows[r])
                    /\ Tail(excelFile.rows)[r][3] = " "

\* C18 (one row = one placement, as claimed): in a written output, when two
\* accepted rows give the same Entity, each of them has its company in the
\* list determined by its own Category and Sub Category, as many times as
\* there are accepted rows giving that company for that list.  A row is
\* accepted when its Entity is not empty, its Category is one the placement
\* rules give a place to, and it carries the Sub Category its category
\* requires.
LeafOf(row) ==
    LET category == CategoryOf(row)
        subcategory == SubcategoryOf(row)
    IN  CASE category \in {"Research & Intelligence", "Strategy & Creative Production"} ->
                <<"Brain", category, subcategory>>
          [] category \in FlatEngine -> <<"Engine", category>>
          [] category = "Organisational Infrastructure" ->
                <<"Engine", "Organizational Infrastructure", subcategory>>
          [] category = "Digital Comms & Advertising" ->
                <<"Megaphone", "Digital Communications and Advertising", subcategory>>
          [] category = "Participation & Election Tech" -> ParticipationLeafOf(row)
Accepted(row) ==
    /\ EntityOf(row) # ""
    /\ CategoryOf(row) \in NeedsSubcategory \cup FlatEngine
                                \cup {"Participation & Election Tech"}
    /\ CategoryOf(row) \in NeedsSubcategory => SubcategoryOf(row) # ""
PlacedOncePerRow(r) ==
    CountIn(ItemsAt(jsonFile, LeafOf(rows[r])), CompanyOf(rows[r])) =
        Cardinality({q \in DOMAIN rows :
                        /\ Accepted(rows[q])
                        /\ LeafOf(rows[q]) = LeafOf(rows[r])
                        /\ CompanyOf(rows[q]) = CompanyOf(rows[r])})
C18_OneRowOnePlacement ==
    Succeeded =>
        \A r, q \in DOMAIN rows :
            (/\ r < q
             /\ Accepted(rows[r]) /\ Accepted(rows[q])
             /\ EntityOf(rows[r]) = EntityOf(rows[q])) =>
                PlacedOncePerRow(r) /\ PlacedOncePerRow(q)

\* C19 (source precedence, as claimed): once the source is read, the rows
\* are those of the workbook when the workbook exists, whatever the CSV
\* holds, and those of the CSV when only the CSV exists; and a run that ends
\* with an exception is a run that found neither file.  Stated for the
\* tables whose Category and Sub Category cells are ordinary labels.
C19_SourcePrecedence ==
    (pc # "start" /\ OrdinaryLabels) =>
        /\ excelFile # Absent => rows = FromWorkbook(excelFile)
        /\ (excelFile = Absent /\ csvFile # Absent) => rows = FromCsv(csvFile)
        /\ Failed => ~SourceFound

\* C20 (three top-level keys): every written output is an object whose keys
\* are Brain, Engine, Megaphone, in that order; and a run that found a
\* source whose rows, if any, are all skipped by the loop (empty Entity or
\* Category, a Category the table lookup finds nothing for, a missing
\* required Sub Category) ends without exception, having written a document
\* without companies.
TopLevelKeys(doc) == [n \in DOMAIN doc.entries |-> doc.entries[n].k]
SkippedByTheLoop(row) ==
    \/ Skipped(EntityOf(row), CategoryOf(row))
    \/ Get(categoryToPillar, CategoryOf(row)) = Undefined
    \/ CategoryOf(row) \in NeedsSubcategory /\ SubcategoryOf(row) = ""
C20_ThreeTopLevelKeys ==
    /\ Succeeded =>
            /\ jsonFile.kind = "object"
            /\ TopLevelKeys(jsonFile) = <<"Brain", "Engine", "Megaphone">>
    /\ (Exited /\ SourceFound /\ \A r \in DOMAIN rows : SkippedByTheLoop(rows[r])) =>
            /\ Succeeded
            /\ Leaves(jsonFile) = {}

\* A run over two rows, one skipped silently and one with a warning, that
\* replaces the published document by the empty three-key document.
C20_Witness ==
    /\ Succeeded
    /\ Len(rows) = 2
    /\ \A r \in DOMAIN rows : SkippedByTheLoop(rows[r])
    /\ Len(warnings) = 1
    /\ jsonBefore = OldJson
    /\ TopLevelKeys(jsonFile) = <<"Brain", "Engine", "Megaphone">>
    /\ Leaves(jsonFile) = {}

(***************************************************************************)
(* C21..C25                                                                *)
(***************************************************************************)
\* C21 (full replace): the document a successful run writes is the function
\* OutputOf of the rows it read, whatever the published file held before the
\* run; every company in it is the company of a row of this run.
C21_FullReplace ==
    Succeeded =>
        /\ jsonFile = OutputOf(rows)
        /\ WrittenCompanies \subseteq {CompanyOf(rows[r]) : r \in DOMAIN rows}

\* A run that replaces the published document, which listed Legacy under
\* Engine / Fundraising & Payments, by one with other companies and no such
\* category.
C21_Witness ==
    /\ Succeeded
    /\ jsonBefore = OldJson
    /\ Leaves(jsonFile) # {}
    /\ \A c \in WrittenCompanies : c.name # "Legacy"
    /\ "Fundraising & Payments" \notin CategoryKeys(jsonFile)

\* C22 (per-bucket insertion order): every list of a written output holds,
\* in input order and with nothing else, the companies of the accepted rows
\* whose Category and Sub Category lead to that list.
C22_InsertionOrder ==
    Succeeded =>
        \A leaf \in Leaves(jsonFile) :
            leaf.items =
                CompaniesKept(rows,
                    [n \in DOMAIN rows |->
                        Accepted(rows[n]) /\ LeafOf(rows[n]) = leaf.path],
                    Len(rows))

\* Two rows of one list whose input order is not the alphabetical one.
C22_Witness ==
    /\ Succeeded
    /\ Len(rows) = 2
    /\ EntityOf(rows[1]) = "Beta" /\ EntityOf(rows[2]) = "Acme"
    /\ \E leaf \in Leaves(jsonFile) : leaf.items = <<CompanyOf(rows[1]), CompanyOf(rows[2])>>

\* C23 (category order, as claimed): in a written output, for Brain and for
\* Megaphone, when the first accepted row of a category precedes the first
\* accepted row of another category of the same pillar and both categories
\* are keys of the pillar, the key of the first precedes the key of the
\* second.
FirstRowOf(pillarName, key) ==
    CHOOSE r \in DOMAIN rows :
        /\ Accepted(rows[r]) /\ LeafOf(rows[r])[1] = pillarName /\ LeafOf(rows[r])[2] = key
        /\ \A q \in DOMAIN rows :
                (Accepted(rows[q]) /\ LeafOf(rows[q])[1] = pillarName
                    /\ LeafOf(rows[q])[2] = key) => r <= q
PositionIn(keys, key) == CHOOSE n \in DOMAIN keys : keys[n] = key
CategoriesOfRows(pillarName) ==
    {LeafOf(rows[r])[2] : r \in {q \in DOMAIN rows :
                                    Accepted(rows[q]) /\ LeafOf(rows[q])[1] = pillarName}}
C23_FirstSeenCategoryOrder ==
    Succeeded =>
        \A pillarName \in {"Brain", "Megaphone"} :
            LET keys == KeysIn(jsonFile, pillarName)
                seen == CategoriesOfRows(pillarName) \cap Range(keys)
            IN  \A a, b \in seen :
                    FirstRowOf(pillarName, a) < FirstRowOf(pillarName, b) =>
                        PositionIn(keys, a) < PositionIn(keys, b)

\* C23 (amended): in a written output the keys of Brain are 'Research &
\* Intelligence' then 'Strategy & Creative Production', and in Megaphone
\* 'Digital Communications and Advertising', when it is there, is the first
\* key, whatever the order of the rows: the keys of Megaphone are those of
\* the accepted rows of the pillar, with that one first.
C23_FixedCategoryOrder ==
    Succeeded =>
        /\ KeysIn(jsonFile, "Brain") =
                <<"Research & Intelligence", "Strategy & Creative Production">>
        /\ LET keys == KeysIn(jsonFile, "Megaphone")
           IN  /\ Range(keys) = CategoriesOfRows("Megaphone")
               /\ Len(keys) = Cardinality(Range(keys))
               /\ "Digital Communications and Advertising" \in Range(keys) =>
                        keys[1] = "Digital Communications and Advertising"

\* A Participation & Election Tech row followed by a Digital Comms row, both
\* placed: the second row's category is written first.
C23_Witness ==
    /\ Succeeded
    /\ Len(rows) = 2
    /\ Accepted(rows[1]) /\ CategoryOf(rows[1]) = "Participation & Election Tech"
    /\ Accepted(rows[2]) /\ CategoryOf(rows[2]) = "Digital Comms & Advertising"
    /\ KeysIn(jsonFile, "Megaphone") =
            <<"Digital Communications and Advertising", "Participation & Election Tech">>

\* C24 (normalization): normalize is idempotent on every string of the
\* model and turns a missing value into the empty string; and the loop
\* treats the cells of the source file by their trimmed value.  Processing a
\* row whose Entity or Category cell is missing, empty or blank leaves the
\* buckets and the warnings alone; one whose Category cell is a flat Engine
\* category with surrounding blanks pushes its company onto the list of
\* that category; one whose category requires a Sub Category and whose Sub
\* Category cell is missing, empty or blank leaves the buckets alone and
\* logs one warning.
RawCell(n, name) ==
    IF excelFile # Absent
    THEN LET header == excelFile.rows[1]
             named == {c \in DOMAIN header : normalize(Just(header[c])) = name}
         IN  IF named = {} THEN Nothing
             ELSE At(Tail(excelFile.rows)[n], CHOOSE c \in named : \A d \in named : d <= c)
    ELSE Field(csvFile.records[n], name)
Blank(cell) == cell = Nothing \/ cell[1] \in {"", " ", "  "}
CellStrings ==
    UNION {Range(row) : row \in SampleRows} \cup {p[1] : p \in Padded} \cup {p[2] : p \in Padded}
PaddedFlatEngine ==
    {<<" Field & Mobilization ", "Field & Mobilization">>,
     <<" Campaign Management & CRM ", "Campaign Management & CRM">>}
ListOf(buckets, path) ==
    IF Truthy(GetPath(buckets, path)) THEN GetPath(buckets, path).items ELSE <<>>
C24_Normalization ==
    /\ [](/\ normalize(Nothing) = ""
          /\ \A v \in CellStrings :
                normalize(Just(normalize(Just(v)))) = normalize(Just(v)))
    /\ [][AtRow =>
            LET entity == RawCell(i, "Entity")
                category == RawCell(i, "Category")
                subcategory == RawCell(i, "Sub Category")
            IN  /\ (Blank(entity) \/ Blank(category)) =>
                        BucketsUnchanged /\ warnings' = warnings /\ LoopContinues
                /\ \A p \in PaddedFlatEngine :
                        (~Blank(entity) /\ category = Just(p[1])) =>
                            ListOf(companiesByPillar', <<"Engine", p[2]>>) =
                                Append(ListOf(companiesByPillar, <<"Engine", p[2]>>),
                                       CompanyOf(rows[i]))
                /\ (~Blank(entity) /\ ~Blank(category)
                        /\ category[1] \in NeedsSubcategory /\ Blank(subcategory)) =>
                            /\ BucketsUnchanged
                            /\ Len(warnings') = Len(warnings) + 1]_vars

\* A run that placed a row whose Category cell carries surrounding blanks,
\* written under the trimmed key, and warned about a row whose Sub Category
\* cell is blank.
C24_Witness ==
    /\ Succeeded
    /\ Len(rows) = 2
    /\ RawCell(1, "Category") = Just(" Campaign Management & CRM ")
    /\ ItemsAt(jsonFile, <<"Engine", "Campaign Management & CRM">>) = <<CompanyOf(rows[1])>>
    /\ RawCell(2, "Sub Category") = Just("  ")
    /\ Len(warnings) = 1

\* C25 (workbook loader): once a workbook is read, an empty sheet gives no
\* record; otherwise there is one record per row after the first, in sheet
\* order, whose keys are exactly the trimmed cells of the first row and
\* whose value under a header is the trimmed cell of the row in that
\* header's column, the empty string when the row has no such cell; a cell
\* past the last header is in no record.
C25_WorkbookLoader ==
    (pc # "start" /\ excelFile # Absent) =>
        IF excelFile.rows = <<>> THEN rows = <<>>
        ELSE LET header == excelFile.rows[1]
                 data == Tail(excelFile.rows)
                 names == {normalize(Just(header[c])) : c \in DOMAIN header}
             IN  /\ Len(rows) = Len(data)
                 /\ \A n \in DOMAIN data :
                        /\ DOMAIN rows[n] = names
                        /\ \A name \in names :
                                rows[n][name] = normalize(RawCell(n, name))
                        /\ \A c \in DOMAIN data[n] :
                                c > Len(header) => data[n][c] \notin Range(rows[n])

\* The sheet with a short and a long data row, read to the end of a run: the
\* short row's missing cells are empty strings and it is placed.
C25_Witness ==
    /\ Succeeded
    /\ excelFile # Absent /\ Len(excelFile.rows) = 3
    /\ Len(excelFile.rows[2]) < Len(excelFile.rows[1])
    /\ Len(excelFile.rows[3]) > Len(excelFile.rows[1])
    /\ Len(rows) = 2
    /\ rows[1]["Sub Category"] = "" /\ rows[1]["Hub URL"] = ""
    /\ ItemsAt(jsonFile, <<"Engine", "Field & Mobilization">>) = <<CompanyOf(rows[1])>>

(***************************************************************************)
(* C26..C30                                                                *)
(***************************************************************************)
\* C26 (Hub URL is per placement): in a written output the k-th company of
\* a list has the member hub_url exactly when the k-th accepted row of that
\* list has a non-empty link, and then with that link; the link of a row is
\* the trimmed cell of its Hub URL column or, when that is empty, of its
\* hub_url column.
LinkOf(n) ==
    IF normalize(RawCell(n, "Hub URL")) # ""
    THEN normalize(RawCell(n, "Hub URL"))
    ELSE normalize(RawCell(n, "hub_url"))
C26_HubUrlPerPlacement ==
    Succeeded =>
        \A leaf \in Leaves(jsonFile) :
            LET kept == IndicesKept([n \in DOMAIN rows |->
                                        Accepted(rows[n]) /\ LeafOf(rows[n]) = leaf.path],
                                    Len(rows))
            IN  /\ Len(leaf.items) = Len(kept)
                /\ \A k \in DOMAIN kept :
                        /\ "hub_url" \in DOMAIN leaf.items[k] <=> LinkOf(kept[k]) # ""
                        /\ "hub_url" \in DOMAIN leaf.items[k] =>
                                leaf.items[k].hub_url = LinkOf(kept[k])

\* One entity placed by two rows, with a link on the first row only.
C26_Witness ==
    /\ Succeeded
    /\ Len(rows) = 2
    /\ EntityOf(rows[1]) = EntityOf(rows[2])
    /\ LinkOf(1) # "" /\ LinkOf(2) = ""
    /\ \E a, b \in Leaves(jsonFile) :
            /\ a.items = <<CompanyOf(rows[1])>> /\ "hub_url" \in DOMAIN a.items[1]
            /\ b.items = <<CompanyOf(rows[2])>> /\ "hub_url" \notin DOMAIN b.items[1]

\* C27 (no silent loss, as claimed): after a successful run over rows that
\* all have a non-empty Entity and a Category that is a key of
\* categoryToPillar, every row is accounted for once: the companies written
\* and the warnings logged are together as many as the rows.
WrittenCount(doc) ==
    Cardinality(UNION {{<<leaf.path, n>> : n \in DOMAIN leaf.items} : leaf \in Leaves(doc)})
C27_NoSilentLoss ==
    (/\ Succeeded
     /\ \A r \in DOMAIN rows :
            EntityOf(rows[r]) # "" /\ CategoryOf(rows[r]) \in TableKeys) =>
        WrittenCount(jsonFile) + Len(warnings) = Len(rows)

\* C28 (a skipped row changes nothing): processing a row that the loop
\* skips (empty Entity or Category, a Category the table lookup finds
\* nothing for, a missing required Sub Category), or any row whose Category
\* is no key of categoryToPillar, leaves the buckets alone; after a skip the
\* loop goes on; and the document a successful run writes is the one the
\* same rows without a skipped row give.
Without(table, r) == SubSeq(table, 1, r - 1) \o SubSeq(table, r + 1, Len(table))
C28_SkippedRowChangesNothing ==
    /\ [][(AtRow /\ SkippedByTheLoop(rows[i])) => BucketsUnchanged /\ LoopContinues]_vars
    /\ [][(AtRow /\ CategoryOf(rows[i]) \notin TableKeys) => BucketsUnchanged]_vars
    /\ [](Succeeded =>
            \A r \in DOMAIN rows :
                SkippedByTheLoop(rows[r]) => jsonFile = OutputOf(Without(rows, r)))

\* A grouped Engine row without Sub Category followed by a placed row: the
\* document is that of the second row alone and has no key for the grouped
\* category.
C28_Witness ==
    /\ Succeeded
    /\ Len(rows) = 2
    /\ EntityOf(rows[1]) # ""
    /\ CategoryOf(rows[1]) = "Organisational Infrastructure"
    /\ SubcategoryOf(rows[1]) = ""
    /\ Leaves(jsonFile) # {}
    /\ jsonFile = OutputOf(<<rows[2]>>)
    /\ "Organizational Infrastructure" \notin CategoryKeys(jsonFile)

\* C29 (opaque keys, as claimed): a run that found a source and whose rows
\* never share the 'Participation & Election Tech' list ends without an
\* exception; each row with a non-empty Entity whose Category is the name of
\* a member of Object.prototype is answered by the warning for an unmapped
\* category, and each accepted row whose Sub Category is such a name has its
\* company written in the list of that Sub Category.
C29_OpaqueKeys ==
    (/\ Exited /\ SourceFound
     /\ \A r \in DOMAIN rows : ~ParticipationRow(rows[r])) =>
        /\ error = ""
        /\ \A r \in DOMAIN rows :
                /\ (EntityOf(rows[r]) # "" /\ CategoryOf(rows[r]) \in ObjectPrototype) =>
                        UnmappedWarning(CategoryOf(rows[r])) \in Range(warnings)
                /\ (Accepted(rows[r]) /\ SubcategoryOf(rows[r]) \in ObjectPrototype) =>
                        CompanyOf(rows[r]) \in Range(ItemsAt(jsonFile, LeafOf(rows[r])))

\* C30 (subcategory order, as claimed): in a written output, within every
\* grouped category, when the first accepted row of a Sub Category precedes
\* the first accepted row of another Sub Category of the same category, the
\* key of the first precedes the key of the second.
GroupedLeaves(doc) == {leaf \in Leaves(doc) : Len(leaf.path) = 3}
SubcategoryKeys(doc, pillarName, categoryName) ==
    LET cat == CHOOSE c \in CategoriesIn(doc, pillarName) : c.k = categoryName
    IN  [n \in DOMAIN cat.v.entries |-> cat.v.entries[n].k]
FirstRowIn(path) ==
    CHOOSE r \in DOMAIN rows :
        /\ Accepted(rows[r]) /\ LeafOf(rows[r]) = path
        /\ \A q \in DOMAIN rows : (Accepted(rows[q]) /\ LeafOf(rows[q]) = path) => r <= q
C30_SubcategoryOrder ==
    Succeeded =>
        \A a, b \in GroupedLeaves(jsonFile) :
            (/\ a.path[1] = b.path[1] /\ a.path[2] = b.path[2]
             /\ FirstRowIn(a.path) < FirstRowIn(b.path)) =>
                LET keys == SubcategoryKeys(jsonFile, a.path[1], a.path[2])
                IN  PositionIn(keys, a.path[3]) < PositionIn(keys, b.path[3])


====
